---- MODULE Spec2Model ----
(***************************************************************************)
(* The four-lane traffic-signal controller of app3.py: the lane table      *)
(* traffic_data, the settings table system_settings, the tick              *)
(* update_traffic_lights, the observation write of detect_objects and the  *)
(* configuration handler update_settings.  Under Spec and LiveSpec every    *)
(* handler runs as one atomic step (the handlers are executed one at a     *)
(* time); under ConcSpec the handlers run in request threads whose steps   *)
(* interleave.                                                             *)
(***************************************************************************)
EXTENDS Integers, FiniteSets, Sequences, TLC

\* lanes_order = ["lane1", "lane2", "lane3", "lane4"]: a lane is its 1-based
\* place in that list, which is also the iteration order of traffic_data.
lanes_order == 1..4

\* None, for next_state.
NoState == "none"

\* ---------------------------------------------------------------- bounds
\* Handlers explored per behaviour.
MaxTicks == 5
\* Observations and configuration requests together.
MaxEvents == 2
\* Request threads serving at once (app.run(..., threaded=True)).
MaxThreads == 2
Threads == 1..MaxThreads

VARIABLES
    traffic_data,       \* lane -> [emergency, remaining_time, light, vehicle_count, weight, next_state]
    system_settings,    \* [mode, cycle_duration, yellow_duration, weight_threshold]
    lastOp,             \* the handler that ran last: "init", "tick", "observe", "update_settings"
    request,            \* the body of the last update_settings request
    response,           \* the result of the last update_settings request: "none", "success", "failure"
    policy,             \* the branch that returned from the last tick
    target,             \* the lane the last tick gave priority to (0: none)
    emWatch,            \* the lane whose emergency flag was just raised while it was red (0: none)
    emTicks,            \* ticks since emWatch was set
    rotWatch,           \* the lane that was green with a full cycle when undisturbed rotation began (0: none)
    rotTicks,           \* ticks since rotWatch was set
    nTicks, nEvents,    \* handlers run so far
    lastCmd,            \* lane -> the light of the last send_to_arduino call for it ("none": no call
                        \* yet); followed under ActuatorSpec
    pc,                 \* request thread -> the place it has reached in its handler (ConcSpec)
    anchor,             \* request thread -> update_settings' current_idx and loop index i (ConcSpec)
    snapshot            \* the table the last get_traffic_data handed to jsonify (ConcSpec)

vars == <<traffic_data, system_settings, lastOp, request, response, policy, target,
          emWatch, emTicks, rotWatch, rotTicks, nTicks, nEvents,
          lastCmd, pc, anchor, snapshot>>

\* ------------------------------------------------------------- constants
\* vehicle_weights of the classes coco_classes can name ("van" and "bike" are
\* no COCO class name here, so their counts stay 0).
weight_car == 1
weight_truck == 3
weight_bus == 3
weight_stop_sign == 2

Min(S) == CHOOSE x \in S : \A y \in S : x <= y

\* F applied to the value of v: v is evaluated once, before F reads it.
ApplyTo(v, F(_)) == CHOOSE r \in {F(x) : x \in {v}} : TRUE

\* ---------------------------------------------------------- initial state
InitTrafficData ==
    [l \in lanes_order |->
        [emergency |-> FALSE,
         remaining_time |-> CASE l = 1 -> 45 [] l = 2 -> 30 [] l = 3 -> 15 [] OTHER -> 0,
         light |-> IF l = 4 THEN "green" ELSE "red",
         vehicle_count |-> 0,
         weight |-> 0,
         next_state |-> NoState]]

InitSettings ==
    [mode |-> "auto", cycle_duration |-> 15, yellow_duration |-> 3, weight_threshold |-> 6]

\* ------------------------------------------------------ calculate_red_time
\* next(... if lane["light"] == "green"): the first green lane in dict order.
GreenLanes(td) == {l \in lanes_order : td[l].light = "green"}

\* calculate_red_time with the third position counted as three full cycles.
calculate_red_time_triple(td, ss, lane_id) ==
    IF GreenLanes(td) = {} THEN 0
    ELSE LET green_lane == td[Min(GreenLanes(td))]
             position == (lane_id - Min(GreenLanes(td))) % 4
         IN IF position = 0 THEN 0
            ELSE green_lane.remaining_time + ss.yellow_duration
                    + ss.cycle_duration * (IF position = 3 THEN 3 ELSE position - 1)

calculate_red_time(td, ss, lane_id) ==
    IF GreenLanes(td) = {} THEN 0
    ELSE LET green_lane == td[Min(GreenLanes(td))]
             \* next(k for k, v in traffic_data.items() if v == green_lane)
             green_idx == Min({k \in lanes_order : td[k] = green_lane})
             position == (lane_id - green_idx) % 4
         IN CASE position = 0 -> 0
              [] position = 1 ->
                    green_lane.remaining_time + ss.yellow_duration
              [] position = 2 ->
                    green_lane.remaining_time + ss.yellow_duration + ss.cycle_duration
              [] OTHER ->
                    green_lane.remaining_time + ss.yellow_duration + ss.cycle_duration * 2

\* ---------------------------------------------- update_traffic_lights, loops
\* "First decrement all timers": lanes i..4 in order, each reading the table
\* as the lanes before it left it.
RECURSIVE DecrementTimers(_, _, _)
DecrementTimers(td, ss, i) ==
    IF i > 4 THEN td
    ELSE LET lane == td[i]
             td2 == IF lane.remaining_time > 0
                    THEN [td EXCEPT ![i].remaining_time = @ - 1]
                    ELSE IF lane.light = "red"
                         THEN [td EXCEPT ![i].remaining_time = calculate_red_time(td, ss, i)]
                         ELSE td
         IN ApplyTo(td2, LAMBDA next : DecrementTimers(next, ss, i + 1))

\* The new remaining time of a lane that has just taken its next_state.
ReseedTime(td, ss, i) ==
    CASE td[i].light = "green" -> ss.cycle_duration
      [] td[i].light = "yellow" -> ss.yellow_duration
      [] OTHER -> calculate_red_time(td, ss, i)

\* "Handle state transitions": lanes i..4 in order.
RECURSIVE ResolveTransitions(_, _, _)
ResolveTransitions(td, ss, i) ==
    IF i > 4 THEN td
    ELSE LET lane == td[i]
             td2 == IF lane.remaining_time <= 0 /\ lane.next_state # NoState
                    THEN LET moved == [td EXCEPT ![i].light = lane.next_state,
                                                 ![i].next_state = NoState]
                         IN [moved EXCEPT ![i].remaining_time = ReseedTime(moved, ss, i)]
                    ELSE td
         IN ApplyTo(td2, LAMBDA next : ResolveTransitions(next, ss, i + 1))

\* ------------------------------------------ update_traffic_lights, priority
\* The first lane with emergency set (0: none): the scan that breaks at the
\* first hit.
emergency_lane(td) ==
    IF \E l \in lanes_order : td[l].emergency
    THEN Min({l \in lanes_order : td[l].emergency})
    ELSE 0

\* The scan with the best so far replaced by an equally heavy lane too.
RECURSIVE MaxScanLastWins(_, _, _, _)
MaxScanLastWins(td, ss, i, best) ==
    IF i > 4 THEN best
    ELSE IF td[i].weight > ss.weight_threshold
              /\ (best = 0 \/ td[i].weight >= td[best].weight)
         THEN MaxScanLastWins(td, ss, i + 1, i)
         ELSE MaxScanLastWins(td, ss, i + 1, best)

\* max(high_weight_lanes.items(), key=weight): lanes i..4 in dict order, the
\* best so far replaced only by a strictly heavier lane (0: no lane qualifies).
RECURSIVE MaxScan(_, _, _, _)
MaxScan(td, ss, i, best) ==
    IF i > 4 THEN best
    ELSE IF td[i].weight > ss.weight_threshold
              /\ (best = 0 \/ td[i].weight > td[best].weight)
         THEN MaxScan(td, ss, i + 1, i)
         ELSE MaxScan(td, ss, i + 1, best)

max_lane(td, ss) == MaxScan(td, ss, 1, 0)

\* The priority lane sent to yellow without its timer being set.
ForceGreenKeepsTimer(lane, ss) ==
    IF lane.light = "red"
    THEN [lane EXCEPT !.light = "yellow", !.next_state = "green"]
    ELSE IF lane.light = "yellow"
         THEN [lane EXCEPT !.next_state = "green"]
         ELSE lane

\* What the forcing loop does to the priority lane itself.
ForceGreen(lane, ss) ==
    IF lane.light = "red"
    THEN [lane EXCEPT !.light = "yellow", !.next_state = "green",
                      !.remaining_time = ss.yellow_duration]
    ELSE IF lane.light = "yellow"
         THEN [lane EXCEPT !.next_state = "green"]
         ELSE lane

\* The other lanes with a green lane left as it is.
ForceRedKeepsGreen(lane, ss) ==
    IF lane.light = "yellow" /\ lane.next_state # "red"
    THEN [lane EXCEPT !.next_state = "red"]
    ELSE lane

\* What the forcing loop does to every other lane.
ForceRed(lane, ss) ==
    IF lane.light = "green"
    THEN [lane EXCEPT !.light = "yellow", !.next_state = "red",
                      !.remaining_time = ss.yellow_duration]
    ELSE IF lane.light = "yellow" /\ lane.next_state # "red"
         THEN [lane EXCEPT !.next_state = "red"]
         ELSE lane

\* The loop of the emergency branch and of the weight branch (the same code
\* twice): each lane's update reads that lane alone.
GivePriority(td, ss, tgt) ==
    [l \in lanes_order |-> IF l = tgt THEN ForceGreen(td[l], ss) ELSE ForceRed(td[l], ss)]

\* Normal operation with the lane after the next one prepared instead.
NormalOperationSkipsOne(td, ss) ==
    IF \E l \in lanes_order : td[l].light = "yellow" THEN td
    ELSE IF GreenLanes(td) # {}
         THEN LET current_green == Min(GreenLanes(td))
                  next_green == ((current_green + 1) % 4) + 1
                  expired == [td EXCEPT ![current_green] =
                                 [@ EXCEPT !.light = "yellow", !.next_state = "red",
                                           !.remaining_time = ss.yellow_duration]]
              IN IF td[current_green].remaining_time > 0 THEN td
                 ELSE [expired EXCEPT ![next_green] =
                          [@ EXCEPT !.light = "yellow", !.next_state = "green",
                                    !.remaining_time = ss.yellow_duration]]
         ELSE [td EXCEPT ![4] = [@ EXCEPT !.light = "yellow", !.next_state = "green",
                                          !.remaining_time = ss.yellow_duration]]

\* Normal operation with the expired green lane sent to yellow and no next
\* lane prepared.
NormalOperationNoNext(td, ss) ==
    IF \E l \in lanes_order : td[l].light = "yellow" THEN td
    ELSE IF GreenLanes(td) # {}
         THEN LET current_green == Min(GreenLanes(td))
              IN IF td[current_green].remaining_time > 0 THEN td
                 ELSE [td EXCEPT ![current_green] =
                          [@ EXCEPT !.light = "yellow", !.next_state = "red",
                                    !.remaining_time = ss.yellow_duration]]
         ELSE [td EXCEPT ![4] = [@ EXCEPT !.light = "yellow", !.next_state = "green",
                                          !.remaining_time = ss.yellow_duration]]

\* "Normal operation".
NormalOperation(td, ss) ==
    IF \E l \in lanes_order : td[l].light = "yellow" THEN td
    ELSE IF GreenLanes(td) # {}
         THEN LET current_green == Min(GreenLanes(td))
                  next_green == (current_green % 4) + 1
                  expired == [td EXCEPT ![current_green] =
                                 [@ EXCEPT !.light = "yellow", !.next_state = "red",
                                           !.remaining_time = ss.yellow_duration]]
              IN IF td[current_green].remaining_time > 0 THEN td
                 ELSE [expired EXCEPT ![next_green] =
                          [@ EXCEPT !.light = "yellow", !.next_state = "green",
                                    !.remaining_time = ss.yellow_duration]]
         ELSE [td EXCEPT ![4] = [@ EXCEPT !.light = "yellow", !.next_state = "green",
                                          !.remaining_time = ss.yellow_duration]]

\* The table after the two loops that open every tick.
AfterTimers(td, ss) ==
    ApplyTo(DecrementTimers(td, ss, 1), LAMBDA dec : ResolveTransitions(dec, ss, 1))

\* The branches tried with the weight branch first.
TickPolicyWeightFirst(td, ss) ==
    IF max_lane(td, ss) # 0 THEN "weight"
    ELSE IF emergency_lane(td) # 0 THEN "emergency" ELSE "normal"

\* The branch of the tick that returns, and the lane it gives priority to.
TickPolicy(td, ss) ==
    IF emergency_lane(td) # 0 THEN "emergency"
    ELSE IF max_lane(td, ss) # 0 THEN "weight" ELSE "normal"

TickTarget(td, ss) ==
    IF emergency_lane(td) # 0 THEN emergency_lane(td) ELSE max_lane(td, ss)

\* update_traffic_lights: the whole tick.
\* The tick after its two loops: the emergency branch, the weight branch or
\* normal operation.
PriorityPart(timed, ss) ==
    CASE TickPolicy(timed, ss) = "emergency" -> GivePriority(timed, ss, emergency_lane(timed))
      [] TickPolicy(timed, ss) = "weight" -> GivePriority(timed, ss, max_lane(timed, ss))
      [] OTHER -> NormalOperation(timed, ss)

update_traffic_lights(td, ss) ==
    ApplyTo(AfterTimers(td, ss), LAMBDA timed : PriorityPart(timed, ss))

\* ------------------------------------------------------------ send_to_arduino
\* Whether "Handle state transitions" calls send_to_arduino for lane i (dec:
\* the table after the decrement loop; a lane's timer and next_state are
\* touched by no other lane's iteration).
SentInTransitions(dec, i) ==
    dec[i].remaining_time <= 0 /\ dec[i].next_state # NoState

\* Whether the forcing loop calls send_to_arduino(i, "yellow").
SentInForcing(td, tgt, i) ==
    IF i = tgt THEN td[i].light = "red" ELSE td[i].light = "green"

\* Whether "Normal operation" calls send_to_arduino(i, "yellow").
SentInNormal(td, i) ==
    IF \E l \in lanes_order : td[l].light = "yellow" THEN FALSE
    ELSE IF GreenLanes(td) # {}
         THEN /\ td[Min(GreenLanes(td))].remaining_time <= 0
              /\ i \in {Min(GreenLanes(td)), (Min(GreenLanes(td)) % 4) + 1}
         ELSE i = 4

\* Whether the part of the tick after the two loops calls
\* send_to_arduino(i, "yellow") (timed: the table after the loops).
SentInPriority(timed, ss, i) ==
    CASE TickPolicy(timed, ss) = "emergency" -> SentInForcing(timed, emergency_lane(timed), i)
      [] TickPolicy(timed, ss) = "weight" -> SentInForcing(timed, max_lane(timed, ss), i)
      [] OTHER -> SentInNormal(timed, i)

\* The last command of every lane once a tick has run: the tick's last call
\* for the lane if it made one, the earlier command otherwise.
CommandsAfterTick(cmd, td, ss) ==
    ApplyTo(DecrementTimers(td, ss, 1), LAMBDA dec :
        ApplyTo(ResolveTransitions(dec, ss, 1), LAMBDA timed :
            [i \in lanes_order |->
                IF SentInPriority(timed, ss, i) THEN "yellow"
                ELSE IF SentInTransitions(dec, i) THEN timed[i].light
                ELSE cmd[i]]))

\* ------------------------------------------------------------ detect_objects
\* One frame's detections, counted by the class names coco_classes gives.
Frame(cars, trucks, buses, stop_signs) ==
    [car |-> cars, truck |-> trucks, bus |-> buses, stop_sign |-> stop_signs]

\* The frames a camera delivers here: an empty road, a weight of exactly the
\* threshold (6), weights above it (7 and 9), and a stop sign (the emergency).
Frames ==
    {Frame(0, 0, 0, 0), Frame(0, 2, 0, 0), Frame(1, 2, 0, 0),
     Frame(0, 1, 2, 0), Frame(0, 0, 0, 1)}

\* weight = sum(vehicle_weights[vt] * vehicle_counts[vt] ...)
FrameWeight(f) ==
    weight_car * f.car + weight_truck * f.truck + weight_bus * f.bus
        + weight_stop_sign * f.stop_sign

\* traffic_data[f"lane{camera_id}"].update({...})
detect_objects(td, camera_id, f) ==
    [td EXCEPT ![camera_id] =
        [@ EXCEPT !.emergency = f.stop_sign > 0,
                  !.vehicle_count = f.car + f.truck + f.bus + f.stop_sign,
                  !.weight = FrameWeight(f)]]

\* ----------------------------------------------------------- update_settings
Absent == [kind |-> "absent", val |-> 0]
Text == [kind |-> "text", val |-> 0]        \* a JSON string such as "abc"
Number(n) == [kind |-> "int", val |-> n]    \* a JSON integer

\* The values a request may carry under "duration" and "yellow_duration".
DurationInputs == {Absent, Text} \cup {Number(n) : n \in {-1, 0, 1}}

NoRequest == [body |-> "none", mode |-> "absent", duration |-> Absent, yellow_duration |-> Absent]

\* The request bodies: no JSON body at all, or the settings form's object (the
\* mode it selects, and a duration and a yellow duration that may each be
\* missing, non-numeric or an integer).
Requests ==
    {NoRequest} \cup
    [body : {"json"}, mode : {"manual"},
     duration : DurationInputs, yellow_duration : DurationInputs]

\* int(data.get(key, current)) raises on a non-numeric string; data.get on a
\* missing body raises before anything is assigned.
Raises(v) == v.kind = "text"
IntOf(v, current) == IF v.kind = "absent" THEN current ELSE v.val

RequestFails(req) ==
    req.body = "none" \/ Raises(req.duration) \/ Raises(req.yellow_duration)

\* system_settings when the handler returns: the three assignments in order,
\* up to the first that raises.
ApplySettings(ss, req) ==
    IF req.body = "none" THEN ss
    ELSE LET s1 == [ss EXCEPT !.mode = IF req.mode = "absent" THEN @ ELSE req.mode]
             s2 == [s1 EXCEPT !.cycle_duration = IntOf(req.duration, @)]
             s3 == [s2 EXCEPT !.yellow_duration = IntOf(req.yellow_duration, @)]
         IN IF Raises(req.duration) THEN s1
            ELSE IF Raises(req.yellow_duration) THEN s2
            ELSE s3

\* The reset anchored at lane4 whatever lane is green.
ResetTimersFromLane4(td, ss) ==
    [l \in lanes_order |->
        IF l = 4
        THEN [td[l] EXCEPT !.light = "green", !.remaining_time = ss.cycle_duration,
                           !.next_state = NoState]
        ELSE [td[l] EXCEPT !.light = "red", !.remaining_time = l * ss.cycle_duration,
                           !.next_state = NoState]]

\* The reset with next_state left as it was.
ResetTimersKeepsPending(td, ss) ==
    LET current_green == IF GreenLanes(td) # {} THEN Min(GreenLanes(td)) ELSE 4
    IN [l \in lanes_order |->
          LET position == (l - current_green) % 4
          IN IF position = 0
             THEN [td[l] EXCEPT !.light = "green",
                                !.remaining_time = ss.cycle_duration]
             ELSE [td[l] EXCEPT !.light = "red",
                                !.remaining_time = position * ss.cycle_duration]]

\* "Reset all timers when settings change".
ResetTimers(td, ss) ==
    LET current_green == IF GreenLanes(td) # {} THEN Min(GreenLanes(td)) ELSE 4
    IN [l \in lanes_order |->
          LET position == (l - current_green) % 4
          IN IF position = 0
             THEN [td[l] EXCEPT !.light = "green",
                                !.remaining_time = ss.cycle_duration,
                                !.next_state = NoState]
             ELSE [td[l] EXCEPT !.light = "red",
                                !.remaining_time = position * ss.cycle_duration,
                                !.next_state = NoState]]

\* --------------------------------------- calculate_red_time without a green
\* Whether the decrement loop calls calculate_red_time while no lane is
\* green (the loop changes no light).
DecrementCallsWithoutGreen(td) ==
    /\ GreenLanes(td) = {}
    /\ \E i \in lanes_order : td[i].remaining_time <= 0 /\ td[i].light = "red"

\* Whether "Handle state transitions", from lane i on, calls
\* calculate_red_time for a lane that has just turned red while no lane is
\* green.
RECURSIVE TransitionsCallWithoutGreen(_, _, _)
TransitionsCallWithoutGreen(td, ss, i) ==
    IF i > 4 THEN FALSE
    ELSE LET lane == td[i]
             moved == [td EXCEPT ![i].light = lane.next_state, ![i].next_state = NoState]
         IN IF lane.remaining_time <= 0 /\ lane.next_state # NoState
            THEN \/ (moved[i].light = "red" /\ GreenLanes(moved) = {})
                 \/ TransitionsCallWithoutGreen(
                        [moved EXCEPT ![i].remaining_time = ReseedTime(moved, ss, i)], ss, i + 1)
            ELSE TransitionsCallWithoutGreen(td, ss, i + 1)

\* Whether a tick begun in td calls calculate_red_time while no lane is green.
CalledWithoutGreen(td, ss) ==
    \/ DecrementCallsWithoutGreen(td)
    \/ TransitionsCallWithoutGreen(DecrementTimers(td, ss, 1), ss, 1)

\* One iteration of the reset loop: lane i, current_idx as computed before
\* the loop, cycle_duration as system_settings holds it now.
ResetLane(td, ss, current_idx, i) ==
    LET position == (i - current_idx) % 4
    IN IF position = 0
       THEN [td EXCEPT ![i] = [@ EXCEPT !.light = "green",
                                        !.remaining_time = ss.cycle_duration,
                                        !.next_state = NoState]]
       ELSE [td EXCEPT ![i] = [@ EXCEPT !.light = "red",
                                        !.remaining_time = position * ss.cycle_duration,
                                        !.next_state = NoState]]

NoAnchor == [current_idx |-> 0, i |-> 0]

\* ------------------------------------------------------------ observers
\* No emergency flag and no weight above the threshold.
Quiet(td, ss) ==
    \A l \in lanes_order : ~td[l].emergency /\ ~(td[l].weight > ss.weight_threshold)

\* Lane k green with a full cycle left, every other lane red, nothing pending.
RotationStart(td, ss, k) ==
    /\ td[k].light = "green"
    /\ td[k].remaining_time = ss.cycle_duration
    /\ \A l \in lanes_order \ {k} : td[l].light = "red"
    /\ Quiet(td, ss)

RotationPeriod(ss) == 4 * (ss.cycle_duration + ss.yellow_duration)

\* Ticks after which a lane that was red when its flag was raised is green.
EmergencyDeadline(ss) ==
    (IF ss.yellow_duration > 1 THEN ss.yellow_duration ELSE 1) + 1

\* ------------------------------------------------------------------ actions
Init ==
    /\ traffic_data = InitTrafficData
    /\ system_settings = InitSettings
    /\ lastOp = "init"
    /\ request = NoRequest
    /\ response = "none"
    /\ policy = "none"
    /\ target = 0
    /\ emWatch = 0 /\ emTicks = 0
    /\ rotWatch = 0 /\ rotTicks = 0
    /\ nTicks = 0 /\ nEvents = 0
    /\ lastCmd = [l \in lanes_order |-> "none"]
    /\ pc = [t \in Threads |-> "idle"]
    /\ anchor = [t \in Threads |-> NoAnchor]
    /\ snapshot = InitTrafficData

\* One GET /traffic_data run from start to end: get_traffic_data calls
\* update_traffic_lights (its only caller) and returns the table.
TickStep ==
    /\ traffic_data' = update_traffic_lights(traffic_data, system_settings)
    /\ policy' = TickPolicy(traffic_data, system_settings)
    /\ target' = TickTarget(traffic_data, system_settings)
    /\ lastOp' = "tick"
    /\ request' = NoRequest
    /\ response' = "none"
    /\ IF emWatch # 0 /\ emTicks < EmergencyDeadline(system_settings)
       THEN emWatch' = emWatch /\ emTicks' = emTicks + 1
       ELSE emWatch' = 0 /\ emTicks' = 0
    /\ IF rotWatch # 0 /\ rotTicks < RotationPeriod(system_settings)
       THEN rotWatch' = rotWatch /\ rotTicks' = rotTicks + 1
       ELSE IF \E k \in lanes_order : RotationStart(traffic_data', system_settings, k)
            THEN /\ rotWatch' = CHOOSE k \in lanes_order :
                                    RotationStart(traffic_data', system_settings, k)
                 /\ rotTicks' = 0
            ELSE rotWatch' = 0 /\ rotTicks' = 0
    /\ UNCHANGED <<system_settings, nEvents, pc, anchor, snapshot>>

Tick ==
    /\ nTicks < MaxTicks
    /\ nTicks' = nTicks + 1
    /\ TickStep
    /\ UNCHANGED lastCmd

\* One frame of camera camera_id processed by detect_objects.
Observe ==
    \E camera_id \in lanes_order, f \in Frames :
        /\ nEvents < MaxEvents
        /\ nEvents' = nEvents + 1
        \* a frame that repeats the lane's stored observation writes the same
        \* values back: it is no step
        /\ detect_objects(traffic_data, camera_id, f) # traffic_data
        /\ traffic_data' = detect_objects(traffic_data, camera_id, f)
        /\ lastOp' = "observe"
        /\ request' = NoRequest
        /\ response' = "none"
        /\ policy' = "none"
        /\ target' = 0
        /\ IF /\ f.stop_sign > 0
              /\ \A l \in lanes_order : ~traffic_data[l].emergency
              /\ traffic_data[camera_id].light = "red"
              /\ \E g \in lanes_order : traffic_data[g].light = "green"
           THEN emWatch' = camera_id /\ emTicks' = 0
           ELSE emWatch' = 0 /\ emTicks' = 0
        /\ IF rotWatch # 0 /\ Quiet(traffic_data', system_settings)
           THEN UNCHANGED <<rotWatch, rotTicks>>
           ELSE rotWatch' = 0 /\ rotTicks' = 0
        /\ UNCHANGED <<system_settings, nTicks, lastCmd, pc, anchor, snapshot>>

\* One POST to /update_settings.
UpdateSettings ==
    \E req \in Requests :
        /\ nEvents < MaxEvents
        /\ nEvents' = nEvents + 1
        /\ request' = req
        /\ system_settings' = ApplySettings(system_settings, req)
        /\ IF RequestFails(req)
           THEN /\ response' = "failure"
                /\ traffic_data' = traffic_data
           ELSE /\ response' = "success"
                /\ traffic_data' = ResetTimers(traffic_data, system_settings')
        /\ lastOp' = "update_settings"
        /\ policy' = "none"
        /\ target' = 0
        /\ emWatch' = 0 /\ emTicks' = 0
        /\ IF \E k \in lanes_order : RotationStart(traffic_data', system_settings', k)
           THEN /\ rotWatch' = CHOOSE k \in lanes_order :
                                   RotationStart(traffic_data', system_settings', k)
                /\ rotTicks' = 0
           ELSE rotWatch' = 0 /\ rotTicks' = 0
        \* the handler never calls send_to_arduino
        /\ UNCHANGED <<nTicks, lastCmd, pc, anchor, snapshot>>

Next == Tick \/ Observe \/ UpdateSettings

Spec == Init /\ [][Next]_vars

\* ------------------------------------------------- the handlers and the actuator
\* The tick with its send_to_arduino calls recorded.
CommandTick ==
    /\ nTicks < MaxTicks
    /\ nTicks' = nTicks + 1
    /\ TickStep
    /\ lastCmd' = CommandsAfterTick(lastCmd, traffic_data, system_settings)

ActuatorNext == CommandTick \/ Observe \/ UpdateSettings

ActuatorSpec == Init /\ [][ActuatorNext]_vars

\* ------------------------------------------------------------ request threads
\* app.run(threaded=True) serves every request in a thread of its own.  A
\* thread switch is followed here between the loops of a handler and between
\* the iterations of the reset loop: every interleaving of ConcSpec is one the
\* threads can produce.
InHandler(t) == pc[t] \in {"decrement", "transitions", "priority", "reset"}

\* The requests of ConcSpec: the settings form with a cycle of one tick, with
\* or without a yellow duration of one tick.
ConcRequests ==
    {req \in Requests : /\ req.body = "json"
                        /\ req.duration = Number(1)
                        /\ req.yellow_duration \in {Absent, Number(1)}}

\* The frames of ConcSpec: a stop sign.
ConcFrames == {Frame(0, 0, 0, 1)}

\* GET /traffic_data in thread t enters update_traffic_lights.  "with
\* threading.Lock():" makes a new lock at every call and acquires that one:
\* no call waits for another.
BeginQuery(t) ==
    /\ pc[t] = "idle"
    /\ nTicks < MaxTicks
    /\ nTicks' = nTicks + 1
    /\ pc' = [pc EXCEPT ![t] = "decrement"]
    /\ UNCHANGED <<traffic_data, system_settings, lastOp, request, response, policy, target,
                   emWatch, emTicks, rotWatch, rotTicks, nEvents, lastCmd, anchor, snapshot>>

\* "First decrement all timers".
DecrementLoop(t) ==
    /\ pc[t] = "decrement"
    /\ traffic_data' = DecrementTimers(traffic_data, system_settings, 1)
    /\ pc' = [pc EXCEPT ![t] = "transitions"]
    /\ UNCHANGED <<system_settings, lastOp, request, response, policy, target, emWatch,
                   emTicks, rotWatch, rotTicks, nTicks, nEvents, lastCmd, anchor, snapshot>>

\* "Handle state transitions".
TransitionLoop(t) ==
    /\ pc[t] = "transitions"
    /\ traffic_data' = ResolveTransitions(traffic_data, system_settings, 1)
    /\ pc' = [pc EXCEPT ![t] = "priority"]
    /\ UNCHANGED <<system_settings, lastOp, request, response, policy, target, emWatch,
                   emTicks, rotWatch, rotTicks, nTicks, nEvents, lastCmd, anchor, snapshot>>

\* The rest of update_traffic_lights, to its return.
PriorityStep(t) ==
    /\ pc[t] = "priority"
    /\ traffic_data' = PriorityPart(traffic_data, system_settings)
    /\ pc' = [pc EXCEPT ![t] = "return"]
    /\ UNCHANGED <<system_settings, lastOp, request, response, policy, target, emWatch,
                   emTicks, rotWatch, rotTicks, nTicks, nEvents, lastCmd, anchor, snapshot>>

\* return jsonify(traffic_data): the table as it is now.
ReturnSnapshot(t) ==
    /\ pc[t] = "return"
    /\ snapshot' = traffic_data
    /\ pc' = [pc EXCEPT ![t] = "idle"]
    /\ UNCHANGED <<traffic_data, system_settings, lastOp, request, response, policy, target,
                   emWatch, emTicks, rotWatch, rotTicks, nTicks, nEvents, lastCmd, anchor>>

\* POST /update_settings in thread t, to the head of the reset loop: the
\* settings are assigned and current_idx is computed.  No lock is taken.
BeginUpdate(t) ==
    \E req \in ConcRequests :
        /\ pc[t] = "idle"
        /\ nEvents < MaxEvents
        /\ nEvents' = nEvents + 1
        /\ system_settings' = ApplySettings(system_settings, req)
        /\ anchor' = [anchor EXCEPT ![t] =
                         [current_idx |-> IF GreenLanes(traffic_data) # {}
                                          THEN Min(GreenLanes(traffic_data)) ELSE 4,
                          i |-> 1]]
        /\ pc' = [pc EXCEPT ![t] = "reset"]
        /\ UNCHANGED <<traffic_data, lastOp, request, response, policy, target, emWatch,
                       emTicks, rotWatch, rotTicks, nTicks, lastCmd, snapshot>>

\* One iteration of the reset loop of thread t; after lane4 the handler returns.
ResetStep(t) ==
    /\ pc[t] = "reset"
    /\ traffic_data' = ResetLane(traffic_data, system_settings,
                                 anchor[t].current_idx, anchor[t].i)
    /\ IF anchor[t].i = 4
       THEN /\ pc' = [pc EXCEPT ![t] = "idle"]
            /\ anchor' = [anchor EXCEPT ![t] = NoAnchor]
       ELSE /\ pc' = pc
            /\ anchor' = [anchor EXCEPT ![t].i = @ + 1]
    /\ UNCHANGED <<system_settings, lastOp, request, response, policy, target, emWatch,
                   emTicks, rotWatch, rotTicks, nTicks, nEvents, lastCmd, snapshot>>

\* A camera thread's write of one frame (one dict.update call), whatever the
\* request threads are doing: its lock is a new one too.
CameraWrite ==
    \E camera_id \in lanes_order, f \in ConcFrames :
        /\ nEvents < MaxEvents
        /\ nEvents' = nEvents + 1
        /\ detect_objects(traffic_data, camera_id, f) # traffic_data
        /\ traffic_data' = detect_objects(traffic_data, camera_id, f)
        /\ UNCHANGED <<system_settings, lastOp, request, response, policy, target, emWatch,
                       emTicks, rotWatch, rotTicks, nTicks, lastCmd, pc, anchor, snapshot>>

ConcNext ==
    \/ \E t \in Threads :
          \/ BeginQuery(t) \/ DecrementLoop(t) \/ TransitionLoop(t)
          \/ PriorityStep(t) \/ ReturnSnapshot(t)
          \/ BeginUpdate(t) \/ ResetStep(t)
    \/ CameraWrite

ConcSpec == Init /\ [][ConcNext]_vars

\* ---------------------------------------------------------- ticks without end
\* The same handlers with the queries coming for ever: observations and
\* configuration requests arrive during the first MaxTicks ticks (nTicks stops
\* counting there); past them the behaviours followed are those in which the
\* overrides have ended, and there the ticks never stop.
LiveTick ==
    /\ nTicks < MaxTicks \/ Quiet(traffic_data, system_settings)
    /\ nTicks' = IF nTicks < MaxTicks THEN nTicks + 1 ELSE nTicks
    /\ TickStep
    /\ UNCHANGED lastCmd

LiveObserve == nTicks < MaxTicks /\ Observe

LiveUpdateSettings == nTicks < MaxTicks /\ UpdateSettings

LiveNext == LiveTick \/ LiveObserve \/ LiveUpdateSettings

\* The page polls GET /traffic_data as long as it is open: a tick that can
\* run does run.
LiveSpec == Init /\ [][LiveNext]_vars /\ WF_vars(LiveTick)

TypeOK ==
    /\ \A l \in lanes_order :
          /\ traffic_data[l].light \in {"red", "yellow", "green"}
          /\ traffic_data[l].next_state \in {NoState, "red", "green"}
    /\ policy \in {"none", "emergency", "weight", "normal"}

\* ------------------------------------------------------------------ claims
Others(l) == lanes_order \ {l}
HeadingGreen(lane) == lane.light = "green" \/ (lane.light = "yellow" /\ lane.next_state = "green")
HeadingRed(lane) == lane.light = "red" \/ (lane.light = "yellow" /\ lane.next_state = "red")
ValidDurations == system_settings.cycle_duration >= 1 /\ system_settings.yellow_duration >= 1

\* C1: after any sequence of ticks, observations and configuration updates run
\* one at a time, at most one lane is green.
MutualExclusion == Cardinality(GreenLanes(traffic_data)) <= 1

\* A tick in which the emergency lane lane1 has turned green and lane4, green
\* before it, has turned red.
MutualExclusionWitness ==
    /\ lastOp = "tick" /\ policy = "emergency" /\ target = 1
    /\ traffic_data[1].light = "green"
    /\ traffic_data[4].light = "red"

\* C2: from lane k green with remaining_time = cycle_duration and the others
\* red, with no event and no configuration update, after exactly
\* 4 * (cycle_duration + yellow_duration) ticks lane k is green again with
\* remaining_time = cycle_duration.
RotationClosure ==
    (rotWatch # 0 /\ rotTicks = RotationPeriod(system_settings))
        => /\ traffic_data[rotWatch].light = "green"
           /\ traffic_data[rotWatch].remaining_time = system_settings.cycle_duration

\* C3 (as amended): a red lane whose emergency flag is raised while another
\* lane is green, no other lane flagged and the flag kept, is green
\* max(yellow_duration, 1) + 1 ticks later, and every other lane is then red
\* or yellow on its way to red.
EmergencyLatency ==
    (emWatch # 0 /\ emTicks = EmergencyDeadline(system_settings))
        => /\ traffic_data[emWatch].light = "green"
           /\ \A l \in Others(emWatch) : HeadingRed(traffic_data[l])

\* The flag was raised on lane1 under the initial yellow_duration of 3, and
\* four ticks later lane1 is green.
EmergencyLatencyWitness ==
    /\ emWatch = 1 /\ emTicks = 4
    /\ system_settings.yellow_duration = 3
    /\ traffic_data[1].light = "green"

\* C3 as stated: the flagged lane is green within yellow_duration ticks of the
\* flag being raised (for the yellow durations of at least one tick).
EmergencyWithinYellow ==
    (emWatch # 0 /\ system_settings.yellow_duration >= 1
        /\ emTicks = system_settings.yellow_duration)
        => traffic_data[emWatch].light = "green"

\* C4: in a tick with no emergency flag, the lane given priority is the first
\* lane, in lane order, of maximum weight among those strictly above the
\* threshold, and it is sent towards green while every other lane is sent
\* towards red; with no lane strictly above the threshold the tick is normal
\* rotation's.
HeavyLanes == {l \in lanes_order : traffic_data[l].weight > system_settings.weight_threshold}
HeaviestLanes == {l \in HeavyLanes : \A k \in HeavyLanes : traffic_data[k].weight <= traffic_data[l].weight}

WeightTargetSelection ==
    (lastOp = "tick" /\ \A l \in lanes_order : ~traffic_data[l].emergency)
        => IF HeavyLanes = {}
           THEN policy = "normal" /\ target = 0
           ELSE /\ policy = "weight"
                /\ target = Min(HeaviestLanes)
                /\ HeadingGreen(traffic_data[target])
                /\ \A l \in Others(target) : HeadingRed(traffic_data[l])

\* Two lanes share the maximum weight and the tick chose the first of them.
WeightTargetSelectionWitness ==
    /\ lastOp = "tick" /\ policy = "weight"
    /\ \E a, b \in lanes_order :
          /\ a < b /\ target = a
          /\ traffic_data[a].weight = traffic_data[b].weight

\* C5: calculate_red_time(lane) is 0, r + Y, r + Y + C, r + Y + 2C at positions
\* 0, 1, 2, 3 from the green lane, whose remaining time is r, and 0 when no
\* lane is green.
RedTimeExact ==
    \A lane \in lanes_order :
        IF GreenLanes(traffic_data) = {}
        THEN calculate_red_time(traffic_data, system_settings, lane) = 0
        ELSE \A g \in GreenLanes(traffic_data) :
                LET r == traffic_data[g].remaining_time
                    Y == system_settings.yellow_duration
                    C == system_settings.cycle_duration
                    red_time == calculate_red_time(traffic_data, system_settings, lane)
                IN /\ (lane - g) % 4 = 0 => red_time = 0
                   /\ (lane - g) % 4 = 1 => red_time = r + Y
                   /\ (lane - g) % 4 = 2 => red_time = r + Y + C
                   /\ (lane - g) % 4 = 3 => red_time = r + Y + 2 * C

\* The spec's example: green with 10 left, Y = 3, C = 15 gives 28 two places
\* on and 43 three places on.
RedTimeExactWitness ==
    /\ system_settings.yellow_duration = 3 /\ system_settings.cycle_duration = 15
    /\ traffic_data[4].light = "green" /\ traffic_data[4].remaining_time = 10
    /\ calculate_red_time(traffic_data, system_settings, 2) = 28
    /\ calculate_red_time(traffic_data, system_settings, 3) = 43

\* C6: a successful configuration update made while lane g is green leaves g
\* green with the new cycle_duration and no next_state, and every other lane
\* red with no next_state and position * cycle_duration left.
ConfigResetKeepsAnchor ==
    [][(lastOp' = "update_settings" /\ response' = "success")
          => \A g \in GreenLanes(traffic_data) :
                /\ traffic_data'[g].light = "green"
                /\ traffic_data'[g].remaining_time = system_settings'.cycle_duration
                /\ traffic_data'[g].next_state = NoState
                /\ \A l \in Others(g) :
                      /\ traffic_data'[l].light = "red"
                      /\ traffic_data'[l].next_state = NoState
                      /\ traffic_data'[l].remaining_time
                            = ((l - g) % 4) * system_settings'.cycle_duration]_vars

\* An update accepted while lane1 was green: lane1 keeps green and lane2,
\* lane3, lane4 wait one, two and three cycles.
ConfigResetKeepsAnchorWitness ==
    /\ lastOp = "update_settings" /\ response = "success"
    /\ system_settings.cycle_duration = 1
    /\ traffic_data[1].light = "green" /\ traffic_data[1].remaining_time = 1
    /\ traffic_data[2].remaining_time = 1
    /\ traffic_data[3].remaining_time = 2
    /\ traffic_data[4].remaining_time = 3

\* C7: a configuration update whose duration or yellow duration is non-numeric
\* or negative returns failure and changes no settings field and no lane.
OutOfRange(v) == v.kind = "text" \/ (v.kind = "int" /\ v.val < 0)

InvalidConfigRejected ==
    [][(lastOp' = "update_settings" /\ request'.body = "json"
            /\ (OutOfRange(request'.duration) \/ OutOfRange(request'.yellow_duration)))
          => /\ response' = "failure"
             /\ system_settings' = system_settings
             /\ traffic_data' = traffic_data]_vars

\* C8: every lane's remaining_time is at least 0 in every reachable state.
RemainingTimeNonNegative ==
    \A l \in lanes_order : traffic_data[l].remaining_time >= 0

\* C9: no lane has remaining_time = 0 at the end of two consecutive ticks
\* (here under durations of at least one tick).
NoLaneStuckAtZero ==
    [][(lastOp = "tick" /\ lastOp' = "tick" /\ ValidDurations)
          => \A l \in lanes_order :
                traffic_data[l].remaining_time = 0
                    => traffic_data'[l].remaining_time # 0]_vars

\* C10: at the end of every tick no lane has both a next_state and
\* remaining_time = 0.
PendingConsumedAtZero ==
    lastOp = "tick"
        => \A l \in lanes_order :
              ~(traffic_data[l].next_state # NoState /\ traffic_data[l].remaining_time = 0)

\* C11: at any moment at most one request thread is inside the with-block of
\* update_traffic_lights or inside the reset loop of update_settings.
CriticalSectionExclusive ==
    Cardinality({t \in Threads : InHandler(t)}) <= 1

\* C12: the table get_traffic_data returns never has two green lanes.
SnapshotOneGreen ==
    Cardinality(GreenLanes(snapshot)) <= 1

\* C13: the last command sent for a lane is that lane's current light, after
\* any sequence of ticks and configuration updates.
ActuatorTracksLights ==
    \A l \in lanes_order :
        lastCmd[l] # "none" => lastCmd[l] = traffic_data[l].light

\* C14: a snapshot query (GET /traffic_data) changes no lane field and no
\* settings field.
QueryReadOnly ==
    [][lastOp' = "tick"
          => traffic_data' = traffic_data /\ system_settings' = system_settings]_vars

\* C15: after a tick with at least one emergency flag the branch taken is the
\* emergency branch, its target is the first flagged lane, the target is green
\* or yellow towards green and every other lane is red or yellow towards red.
FlaggedLanes == {l \in lanes_order : traffic_data[l].emergency}

EmergencyPrecedence ==
    (lastOp = "tick" /\ FlaggedLanes # {})
        => /\ policy = "emergency"
           /\ target = Min(FlaggedLanes)
           /\ HeadingGreen(traffic_data[target])
           /\ \A l \in Others(target) : HeadingRed(traffic_data[l])

\* lane2 and lane3 are flagged, or lane2 is flagged while lane1 is above the
\* weight threshold: the tick gave priority to lane2.
EmergencyPrecedenceWitness ==
    /\ lastOp = "tick" /\ policy = "emergency" /\ target = 2
    /\ HeadingGreen(traffic_data[2])
    /\ \/ traffic_data[3].emergency
       \/ traffic_data[1].weight > system_settings.weight_threshold

\* C16: in a tick with no emergency flag and no weight above the threshold,
\* lanes are sent to yellow only when, after the two loops, no lane is yellow
\* and the green lane k has remaining_time = 0; then k is yellow towards red
\* and the lane after k yellow towards green, both with yellow_duration left,
\* and no other lane's light changes.
NormalHandOff ==
    [][(lastOp' = "tick" /\ Quiet(traffic_data, system_settings))
          => LET timed == AfterTimers(traffic_data, system_settings)
                 started == {l \in lanes_order : /\ timed[l].light # "yellow"
                                                  /\ traffic_data'[l].light = "yellow"}
                 Y == system_settings.yellow_duration
             IN started # {}
                   => /\ \A l \in lanes_order : timed[l].light # "yellow"
                      /\ \E k \in lanes_order :
                            /\ timed[k].light = "green"
                            /\ timed[k].remaining_time = 0
                            /\ traffic_data'[k].light = "yellow"
                            /\ traffic_data'[k].next_state = "red"
                            /\ traffic_data'[k].remaining_time = Y
                            /\ traffic_data'[(k % 4) + 1].light = "yellow"
                            /\ traffic_data'[(k % 4) + 1].next_state = "green"
                            /\ traffic_data'[(k % 4) + 1].remaining_time = Y
                            /\ \A l \in lanes_order \ {k, (k % 4) + 1} :
                                  traffic_data'[l].light = timed[l].light]_vars

\* C17: no tick calls calculate_red_time while no lane is green (here under
\* durations of at least one tick).
CalculatorAlwaysHasGreen ==
    [][(lastOp' = "tick" /\ ValidDurations)
          => ~CalledWithoutGreen(traffic_data, system_settings)]_vars

\* C18: exactly one lane is green or yellow towards green, and the next tick
\* does not reach the branch that starts from lane4 (after its two loops some
\* lane is green or yellow).
HeadingGreenLanes == {l \in lanes_order : HeadingGreen(traffic_data[l])}

OneLaneHeadingGreen ==
    /\ Cardinality(HeadingGreenLanes) = 1
    /\ \E l \in lanes_order :
          AfterTimers(traffic_data, system_settings)[l].light \in {"green", "yellow"}

\* Normal rotation has just begun the hand-off from lane1 to lane2.
OneLaneHeadingGreenWitness ==
    /\ lastOp = "tick" /\ policy = "normal"
    /\ traffic_data[1].light = "yellow" /\ traffic_data[1].next_state = "red"
    /\ traffic_data[2].light = "yellow" /\ traffic_data[2].next_state = "green"

\* C19: a lane is yellow exactly when its next_state is set, and next_state
\* is red or green when set.
YellowIffPending ==
    \A l \in lanes_order :
        /\ (traffic_data[l].light = "yellow") <=> (traffic_data[l].next_state # NoState)
        /\ traffic_data[l].next_state \in {NoState, "red", "green"}

\* The weight branch has sent lane2 to yellow towards green and the green
\* lane4 to yellow towards red; lane1 and lane3 are red with no next_state.
YellowIffPendingWitness ==
    /\ lastOp = "tick" /\ policy = "weight" /\ target = 2
    /\ traffic_data[2].light = "yellow" /\ traffic_data[2].next_state = "green"
    /\ traffic_data[4].light = "yellow" /\ traffic_data[4].next_state = "red"
    /\ \A l \in {1, 3} : traffic_data[l].light = "red" /\ traffic_data[l].next_state = NoState

\* C20: if from some point on no lane is flagged, no weight is above the
\* threshold and both durations are positive (no configuration update comes
\* after the first MaxTicks ticks), then with ticks occurring for ever every
\* lane is green infinitely often.
\* (<>[]P => []<>G is written []<>(~P \/ G), the same formula.)
NoStarvation ==
    \A l \in lanes_order :
        []<>(\/ ~(Quiet(traffic_data, system_settings) /\ ValidDurations)
             \/ traffic_data[l].light = "green")

\* An emergency on lane3 raised in the initial state and withdrawn later
\* has made lane3 green out of turn; 22 ticks after the start rotation
\* has gone on from lane3 to lane4, green with a full cycle while lane1 and
\* lane2 still count down from their initial 45 and 30.
NoStarvationWitness ==
    /\ nTicks = MaxTicks /\ nEvents = MaxEvents
    /\ Quiet(traffic_data, system_settings) /\ ValidDurations
    /\ lastOp = "tick" /\ policy = "normal"
    /\ traffic_data[4].light = "green" /\ traffic_data[4].remaining_time = 15
    /\ traffic_data[3].light = "red"
    /\ traffic_data[1].remaining_time = 23
    /\ traffic_data[2].remaining_time = 8
====
